---- MODULE Spec2Model ----
(***************************************************************************)
(* Grixo: the Discord review bot (services/discord.ts), the commit source  *)
(* adapter (services/github.ts), the post composer and the publisher       *)
(* (services/gemini.ts, services/xApi.ts).                                  *)
(*                                                                         *)
(* Every handler is cut at its awaits: one action per stretch of code that *)
(* runs without yielding.  An action that ends in an await of an external  *)
(* call has issued that call; the action that resumes the handler draws    *)
(* the outcome of the call.                                                *)
(***************************************************************************)
EXTENDS Integers, Sequences, FiniteSets, TLC

(***************************************************************************)
(* Bounds of the model.                                                    *)
(***************************************************************************)
MaxPush == 1        \* commits pushed to the repositories after startup
MaxDate == 2        \* author dates are days 1..MaxDate
MaxInFlight == 2    \* handlers and ticks running at the same time (interleaved runs)
MaxLen == 4         \* characters in a provider response (composer)
MaxLimit == 13      \* X_CHARACTER_LIMIT ranges over 0..MaxLimit (composer)
MaxPost == 5        \* characters in a provider response (truncation fallback)

(***************************************************************************)
(* Configuration and value spaces.                                         *)
(***************************************************************************)
Repos == <<"o/a", "o/b">>                 \* GITHUB_REPOS, in list order
RepoSet == {Repos[i] : i \in 1..Len(Repos)}
User == "u1"                              \* message.author.id
AutoKeyOfUser == User                     \* a channel key that is the user's key
AutoKey == "auto-ch"                      \* `auto-${channel.id}`
Keys == {User, AutoKey}
CmdSlots == {"c1", "c2"}                  \* concurrently running messageCreate handlers
TickSlots == {"t1"}                       \* concurrently running checkForNewCommits calls
Null == "null"                            \* null / undefined
Summaries == {"", "s1"}                   \* texts the summarizer may return
Contents == {"t1", "t2"}                  \* post contents the composer may produce
ListCount == 5                            \* !run asks for 5 commits
WatchCount == 1                           \* the watcher asks for 1 commit

Min(a, b) == IF a < b THEN a ELSE b

(***************************************************************************)
(* services/github.ts                                                      *)
(***************************************************************************)
VARIABLE locale        \* the default locale of the host the bot runs on

\* A commit as GitHub lists it: sha, repo and author date (a day, numbered in
\* time order: toLocaleDateString drops the time of day).
MkCommit(sha, repo, date) == [sha |-> sha, repo |-> repo, date |-> date]

\* The default locales tried: one that writes the month first, one that
\* writes the day first.
Locales == {"en-US", "en-GB"}

\* The calendar: day 1 is 2 January, day n > 1 is the first of month n, all
\* of one year.  <<month, day of month>>.
MonthDay(date) == IF date = 1 THEN <<1, 2>> ELSE <<date, 1>>

\* new Date(isoDate).toLocaleDateString(): "M/D/YYYY" in en-US, "DD/MM/YYYY"
\* in en-GB.  The two numbers in the order written (the year is left out).
toLocaleDateString(date) ==
  IF locale = "en-US" THEN MonthDay(date)
  ELSE <<MonthDay(date)[2], MonthDay(date)[1]>>

\* new Date(dateString).getTime(): a string of this shape is read month
\* first whatever the locale it was written in (the first number is at
\* most 12 for every day of the calendar above, so the string is a date).
getTime(dateString) == dateString[1] * 100 + dateString[2]

\* CommitInfo: the listed commit, its date as a locale string, with its file
\* list when the detail request succeeded (sha in dok), without it when the
\* request threw.
WithDetails(commit, dok) ==
  [sha |-> commit.sha, repo |-> commit.repo, date |-> toLocaleDateString(commit.date),
   files |-> commit.sha \in dok]

\* getRecentCommits: the `count` newest commits of one repository, each with
\* its details.
getRecentCommits(h, repo, count, dok) ==
  [i \in 1..Min(count, Len(h[repo])) |-> WithDetails(h[repo][i], dok)]

\* Array.prototype.sort with (a, b) => date(b) - date(a): stable, newest first.
RECURSIVE InsertByDate(_, _)
InsertByDate(sorted, c) ==
  IF sorted = <<>> THEN <<c>>
  ELSE IF getTime(sorted[Len(sorted)].date) >= getTime(c.date) THEN Append(sorted, c)
  ELSE Append(InsertByDate(SubSeq(sorted, 1, Len(sorted) - 1), c), sorted[Len(sorted)])

RECURSIVE SortByDate(_)
SortByDate(s) ==
  IF s = <<>> THEN <<>>
  ELSE InsertByDate(SortByDate(SubSeq(s, 1, Len(s) - 1)), s[Len(s)])

\* The for loop of getRecentCommitsFromRepos: repositories whose fetch throws
\* (those not in ok) are skipped, the others are appended in list order.
RECURSIVE GatherCommits(_, _, _, _, _)
GatherCommits(h, ok, dok, count, i) ==
  IF i > Len(Repos) THEN <<>>
  ELSE (IF Repos[i] \in ok THEN getRecentCommits(h, Repos[i], count, dok) ELSE <<>>)
         \o GatherCommits(h, ok, dok, count, i + 1)

\* .slice(0, count) of the merged, sorted list.
SliceTo(s, count) == SubSeq(s, 1, Min(count, Len(s)))

getRecentCommitsFromRepos(h, ok, dok, count) ==
  SliceTo(SortByDate(GatherCommits(h, ok, dok, count, 1)), count)

(***************************************************************************)
(* services/gemini.ts: generateWithPrompt and generatePost.  Texts are     *)
(* sequences of characters.                                                *)
(***************************************************************************)
Alphabet == {"a", " ", ".", "\""}
Texts == UNION {[1..n -> Alphabet] : n \in 0..MaxLen}
ProjectNames == {<<>>, <<"P">>}      \* <<>>: no project name (undefined or "")

IsSpace(ch) == ch \in {" ", "\n", "\t"}
IsTerm(ch) == ch \in {".", "!", "?"}

RECURSIVE TrimStart(_)
TrimStart(s) == IF s # <<>> /\ IsSpace(s[1]) THEN TrimStart(Tail(s)) ELSE s

RECURSIVE TrimEnd(_)
TrimEnd(s) ==
  IF s # <<>> /\ IsSpace(s[Len(s)]) THEN TrimEnd(SubSeq(s, 1, Len(s) - 1)) ELSE s

\* String.prototype.trim
Trim(s) == TrimEnd(TrimStart(s))

\* if (content.startsWith(q) && content.endsWith(q)) content = content.slice(1, -1)
StripQuotes(s, q) ==
  IF s # <<>> /\ s[1] = q /\ s[Len(s)] = q THEN SubSeq(s, 2, Len(s) - 1) ELSE s

\* What generateWithPrompt returns for the provider's text.
CleanResponse(text) == Trim(StripQuotes(StripQuotes(Trim(text), "\""), "'"))

\* The length of the longest prefix of s made of terminators (term = TRUE) or
\* of other characters (term = FALSE).
RECURSIVE RunLength(_, _)
RunLength(s, term) ==
  IF s = <<>> \/ IsTerm(s[1]) # term THEN 0 ELSE 1 + RunLength(Tail(s), term)

\* post.match(/[^.!?]+[.!?]+/g) || []
RECURSIVE Sentences(_)
Sentences(s) ==
  IF s = <<>> THEN <<>>
  ELSE IF IsTerm(s[1]) THEN Sentences(Tail(s))
  ELSE LET n == RunLength(s, FALSE)
           m == RunLength(SubSeq(s, n + 1, Len(s)), TRUE)
       IN IF m = 0 THEN <<>>
          ELSE <<SubSeq(s, 1, n + m)>> \o Sentences(SubSeq(s, n + m + 1, Len(s)))

\* The first loop of the fallback: whole sentences while they fit.
RECURSIVE AddSentences(_, _, _)
AddSentences(sentences, truncated, max) ==
  IF sentences = <<>> THEN truncated
  ELSE IF Len(truncated \o sentences[1]) <= max
       THEN AddSentences(Tail(sentences), truncated \o sentences[1], max)
       ELSE truncated

\* post.split(' ')
RECURSIVE SplitWords(_)
SplitWords(s) ==
  IF \A i \in 1..Len(s) : s[i] # " " THEN <<s>>
  ELSE LET k == CHOOSE i \in 1..Len(s) : s[i] = " " /\ \A j \in 1..(i - 1) : s[j] # " "
       IN <<SubSeq(s, 1, k - 1)>> \o SplitWords(SubSeq(s, k + 1, Len(s)))

\* The second loop of the fallback: whole words while they fit.
RECURSIVE AddWords(_, _, _)
AddWords(words, truncated, max) ==
  IF words = <<>> THEN truncated
  ELSE LET test == truncated \o (IF truncated # <<>> THEN <<" ">> ELSE <<>>) \o words[1]
       IN IF Len(test) <= max THEN AddWords(Tail(words), test, max) ELSE truncated

\* The body of the final check: sentences first, words if no sentence fits.
TruncatePost(post, max) ==
  LET truncated == AddSentences(Sentences(post), <<>>, max)
  IN IF truncated # <<>> THEN Trim(truncated)
     ELSE Trim(AddWords(SplitWords(post), <<>>, max))

\* A final check that lets an over-long post through.
FinalCheckSkipped(post, max) == post

\* if (post.length > maxPostLength) { ... truncate ... }
FinalCheck(post, max) == IF Len(post) > max THEN TruncatePost(post, max) ELSE post

\* `${projectName} Updates\n\n`, or '' without a project name.
Prefix(name) ==
  IF name = <<>> THEN <<>>
  ELSE name \o <<" ", "U", "p", "d", "a", "t", "e", "s", "\n", "\n">>

\* maxPostLength = characterLimit - prefix.length
maxPostLength(limit, name) == limit - Len(Prefix(name))

GenRec(pc, limit, name, post, calls, result) ==
  [pc |-> pc, limit |-> limit, name |-> name, post |-> post, calls |-> calls,
   result |-> result, firstLen |-> 0]

\* The end of generatePost: final check, prefix, return.
Finish(limit, name, post, calls) ==
  GenRec("done", limit, name, post, calls,
         Prefix(name) \o FinalCheck(post, maxPostLength(limit, name)))

(***************************************************************************)
(* services/discord.ts: state                                              *)
(***************************************************************************)
VARIABLES
  hist,                \* the repositories: repo -> its commits, newest first
  pushes,              \* commits pushed so far (bounded by MaxPush)
  userStates,          \* the userStates map: key -> UserState (exists = FALSE: no entry)
  lastCheckedCommits,  \* repo -> last seen sha, 0 = no entry
  initp,               \* the initCommits call started by the ready handler
  ticks,               \* the running checkForNewCommits calls
  cmds,                \* the running messageCreate handlers
  mode,                \* which of the specifications below is run ("free", "seq", "poll", ...)
  last,                \* the most recent observable event (calls, replies)
  triggered,           \* sha -> number of processNewCommit calls for it (capped)
  seeded,              \* repo -> the first watermark recorded for it, 0 = none
  gen,                 \* one generatePost call (composer specification)
  faults,              \* what went wrong in the ticks so far (watcher-alone runs)
  pub                  \* one postToX call (publisher specification)

vars == <<hist, pushes, userStates, lastCheckedCommits, initp, ticks,
          cmds, mode, last, triggered, seeded, gen, faults, pub, locale>>

\* The commits pushed after startup: MaxPush of them, one more in the runs of
\* the watcher with every call succeeding.
PushLimit == IF mode = "draft" THEN MaxPush + 1 ELSE MaxPush

Shas == 1..(Len(Repos) + MaxPush + 1)

\* userStates.get(key) === undefined.
NoState ==
  [exists |-> FALSE, commits |-> <<>>, selectedCommits |-> <<>>, generatedSummary |-> Null,
   generatedPost |-> Null, projectName |-> Null, pendingPost |-> FALSE]

\* The object literal stored by !run.
ListedState(commits) ==
  [exists |-> TRUE, commits |-> commits, selectedCommits |-> <<>>, generatedSummary |-> Null,
   generatedPost |-> Null, projectName |-> Null, pendingPost |-> FALSE]

\* An object literal for processNewCommit that leaves the commit out of commits.
AutoStateNoCommits(commit, summary, post, projectName) ==
  [exists |-> TRUE, commits |-> <<>>, selectedCommits |-> <<commit>>,
   generatedSummary |-> summary, generatedPost |-> post,
   projectName |-> projectName, pendingPost |-> TRUE]

\* The object literal stored by processNewCommit.
AutoState(commit, summary, post, projectName) ==
  [exists |-> TRUE, commits |-> <<commit>>, selectedCommits |-> <<commit>>,
   generatedSummary |-> summary, generatedPost |-> post,
   projectName |-> projectName, pendingPost |-> TRUE]

\* JavaScript truthiness of a nullable string.
Truthy(s) == s # Null /\ s # ""

\* repo.split('/')[1], first letter upper-cased, the rest lower-cased.
ProjectNameOf(repo) == CASE repo = "o/a" -> "A" [] repo = "o/b" -> "B"

\* What generatePost returns to the bot: the prefix and the content.
PostText(projectName, content) == projectName \o " Updates\n\n" \o content

IdleCmd == [pc |-> "idle", key |-> Null, att |-> FALSE, pn |-> Null, snap |-> NoState,
            args |-> <<>>, summ |-> Null, text |-> Null]
IdleTick == [pc |-> "idle", commits |-> <<>>, cur |-> <<>>, summ |-> Null,
             heads |-> <<>>, wm |-> <<>>, drafted |-> {}, after |-> FALSE]
IdleInit == [pc |-> "called", commits |-> <<>>]
NoEvent == [op |-> "none"]
GenIdle == GenRec("idle", 0, <<>>, <<>>, 0, <<>>)
NoFaults == [any |-> FALSE, shas |-> {}]
NoError == [code |-> 0, title |-> Null, isError |-> FALSE]   \* nothing thrown
PubIdle == [pc |-> "idle", text |-> <<>>, limit |-> 0, creds |-> FALSE, client |-> FALSE,
            calls |-> 0, err |-> Null, cause |-> NoError]

SlotBefore(d, c) == d = "c1" /\ c = "c2"

AllIdle ==
  /\ initp.pc = "done"
  /\ \A t \in TickSlots : ticks[t].pc = "idle"
  /\ \A c \in CmdSlots : cmds[c].pc = "idle"

\* The log of command events is kept in the sequential runs only.
Note(ev) == IF mode \in {"seq", "seqok"} THEN ev ELSE NoEvent

\* The log of watcher events is kept in the runs of the watcher alone.
NotePoll(ev) == IF mode = "poll" THEN ev ELSE NoEvent

\* What a handler remembers of the session it was started on (recorded in the
\* sequential runs, where no other handler can change the session meanwhile).
Snapshot(state) == IF mode \in {"seq", "seqok"} THEN state ELSE NoState

\* The handlers and ticks that are running.
InFlight ==
  Cardinality({c \in CmdSlots : cmds[c].pc # "idle"})
    + Cardinality({t \in TickSlots : ticks[t].pc # "idle"})

\* Something may start: only at quiescence in the sequential runs, else while
\* fewer than MaxInFlight are running.
Room == IF mode \in {"seq", "seqok"} THEN AllIdle ELSE InFlight < MaxInFlight

\* The slots are interchangeable: a new handler takes the first idle one.
MayStart(c) ==
  /\ cmds[c].pc = "idle"
  /\ \A d \in CmdSlots : cmds[d].pc = "idle" => ~SlotBefore(d, c)
  /\ Room

\* userStates.set(key, ...) and userStates.delete(key) put another object (or
\* none) under the key: the `state` variable of a handler that read the old
\* object no longer refers to the stored one (att = FALSE), and what that
\* handler writes to it is never read again.
Detach(cs, key) ==
  [c \in CmdSlots |-> IF cs[c].key = key THEN [cs[c] EXCEPT !.att = FALSE] ELSE cs[c]]

InitBase ==
  /\ hist = [r \in RepoSet |->
               IF r = Repos[1] THEN <<MkCommit(1, r, 1)>> ELSE <<MkCommit(2, r, 1)>>]
  /\ pushes = 0
  /\ userStates = [k \in Keys |-> NoState]
  /\ lastCheckedCommits = [r \in RepoSet |-> 0]
  /\ initp = IdleInit
  /\ ticks = [t \in TickSlots |-> IdleTick]
  /\ cmds = [c \in CmdSlots |-> IdleCmd]
  /\ last = NoEvent
  /\ triggered = [s \in Shas |-> 0]
  /\ seeded = [r \in RepoSet |-> 0]
  /\ gen = GenIdle
  /\ faults = NoFaults
  /\ pub = PubIdle

\* The runs of the bot are those of a host whose locale is en-US; the runs of
\* the commit source adapter alone try both locales.
Init == InitBase /\ mode = "free" /\ locale = "en-US"

InitSeq == InitBase /\ mode = "seq" /\ locale = "en-US"

InitPoll == InitBase /\ mode = "poll" /\ locale = "en-US"

InitCompose == InitBase /\ mode = "compose" /\ locale = "en-US"

InitRace == InitBase /\ mode = "race" /\ locale = "en-US"

InitFetch == InitBase /\ mode = "fetch" /\ locale \in Locales

(***************************************************************************)
(* Environment: a commit is pushed to a repository.  Its author date is    *)
(* the day of the previous commit or a later day; the runs of the watcher  *)
(* alone try the later days, the other runs keep to the same day.          *)
(***************************************************************************)
PushDates(r) ==
  IF mode \in {"poll", "fetch"} THEN {d \in 1..MaxDate : d >= hist[r][1].date}
  ELSE {hist[r][1].date}

\* The repositories whose fetch succeeds in one call of
\* getRecentCommitsFromRepos: any of them in the runs of the watcher alone,
\* all or none in the other runs.
FetchOutcomes ==
  IF mode = "poll" THEN SUBSET RepoSet ELSE {RepoSet, {}}

\* The commits whose detail request succeeds in the fetches of the bot: all
\* of them (the file lists only feed the text sent to the summarizer).
DetailsTried == Shas

Push(r, d) ==
  /\ pushes < PushLimit
  /\ d \in PushDates(r)
  /\ hist' = [hist EXCEPT ![r] = <<MkCommit(Len(Repos) + pushes + 1, r, d)>> \o @]
  /\ pushes' = pushes + 1
  /\ last' = Note(NoEvent)
  /\ UNCHANGED <<userStates, lastCheckedCommits, initp, ticks, cmds, mode, locale,
                 triggered, seeded, gen, faults, pub>>

(***************************************************************************)
(* initCommits (the ready handler)                                         *)
(***************************************************************************)
\* lastCheckedCommits.set(commit.repo, commit.sha) for every commit, in order.
RECURSIVE SetAll(_, _)
SetAll(wm, commits) ==
  IF commits = <<>> THEN wm
  ELSE SetAll([wm EXCEPT ![commits[1].repo] = commits[1].sha], Tail(commits))

\* The first watermark ever recorded for each repository (kept in the runs of
\* the watcher alone).
FirstSeen(sd, wm) ==
  IF mode = "poll" THEN [r \in RepoSet |-> IF sd[r] = 0 THEN wm[r] ELSE sd[r]] ELSE sd

\* GitHub answers the request of initCommits: the commits as they are now.
InitServe(ok) ==
  /\ initp.pc = "called"
  /\ initp' = [pc |-> "fetched",
               commits |-> getRecentCommitsFromRepos(hist, ok, DetailsTried, WatchCount)]
  /\ last' = Note(NoEvent)
  /\ UNCHANGED <<hist, pushes, userStates, lastCheckedCommits, ticks, cmds, mode, locale,
                 triggered, seeded, gen, faults, pub>>

\* initCommits resumes: record every commit of the answer.
InitStore ==
  /\ initp.pc = "fetched"
  /\ lastCheckedCommits' = SetAll(lastCheckedCommits, initp.commits)
  /\ seeded' = FirstSeen(seeded, lastCheckedCommits')
  /\ initp' = [pc |-> "done", commits |-> <<>>]
  /\ last' = Note([op |-> "seeded"])
  /\ UNCHANGED <<hist, pushes, userStates, ticks, cmds, mode, locale, triggered, gen, faults, pub>>

(***************************************************************************)
(* checkForNewCommits and processNewCommit (one timer tick)                *)
(***************************************************************************)
\* The for loop of checkForNewCommits up to its next await: commits that are
\* seen for the first time or are unchanged only touch the watermark; the
\* first changed one is handed to processNewCommit (draft), the loop waits.
RECURSIVE ScanCommits(_, _)
ScanCommits(commits, wm) ==
  IF commits = <<>> THEN [wm |-> wm, rest |-> <<>>, draft |-> <<>>]
  ELSE LET commit == commits[1]
           lastSha == wm[commit.repo]
       IN IF lastSha = 0
          THEN ScanCommits(Tail(commits), [wm EXCEPT ![commit.repo] = commit.sha])
          ELSE IF lastSha # commit.sha
          THEN [wm |-> [wm EXCEPT ![commit.repo] = commit.sha],
                rest |-> Tail(commits), draft |-> <<commit>>]
          ELSE ScanCommits(Tail(commits), wm)

\* The latest sha of every repository as a tick's fetch saw it, 0 for a
\* repository whose fetch failed (kept in the runs of the watcher alone).
HeadsSeen(ok) ==
  IF mode = "poll" THEN [r \in RepoSet |-> IF r \in ok THEN hist[r][1].sha ELSE 0] ELSE <<>>

Bump(tr, draft) ==
  IF mode = "poll" /\ draft # <<>>
  THEN [tr EXCEPT ![draft[1].sha] = Min(2, @ + 1)]
  ELSE tr

\* Something failed in a tick, in the auto-draft of the commits `shas` if any
\* (kept in the runs of the watcher alone).
Fault(shas) ==
  IF mode = "poll" THEN [any |-> TRUE, shas |-> faults.shas \cup shas] ELSE faults

\* The tick t, its locals being tk, goes on with the commits left: scan, then
\* either await generateSummary for a changed commit or end.
Resume(t, tk, commits) ==
  LET r == ScanCommits(commits, lastCheckedCommits)
  IN /\ lastCheckedCommits' = r.wm
     /\ seeded' = FirstSeen(seeded, r.wm)
     /\ triggered' = Bump(triggered, r.draft)
     /\ IF r.draft = <<>>
        THEN /\ ticks' = [ticks EXCEPT ![t] = IdleTick]
             /\ last' = NotePoll([op |-> "tickEnd", heads |-> tk.heads, wm |-> tk.wm,
                                  drafted |-> tk.drafted, after |-> tk.after])
        ELSE /\ ticks' = [ticks EXCEPT ![t] =
                  [tk EXCEPT !.pc = "summ", !.commits = r.rest, !.cur = r.draft,
                             !.drafted = IF mode = "poll" THEN @ \cup {r.draft[1].repo}
                                                    ELSE @]]
             /\ last' = Note([op |-> "summarize", cmd |-> "tick"])

\* The timer fires, the channel is fetched and GitHub answers the request
\* of getRecentCommitsFromRepos(repos, token, 1).  A failing channel fetch or
\* a channel that is not text based ends the tick.
TickServe(t, chanOk, ok) ==
  /\ ticks[t].pc = "idle"
  /\ Room
  /\ IF chanOk
     THEN ticks' = [ticks EXCEPT ![t] =
            [IdleTick EXCEPT !.pc = "fetched",
                             !.commits = getRecentCommitsFromRepos(hist, ok, DetailsTried, WatchCount),
                             !.heads = HeadsSeen(ok),
                             !.after = (mode = "poll" /\ faults.any)]]
     ELSE UNCHANGED ticks
  /\ faults' = IF ~chanOk \/ ok # RepoSet THEN Fault({}) ELSE faults
  /\ last' = Note(NoEvent)
  /\ UNCHANGED <<hist, pushes, userStates, lastCheckedCommits, initp, cmds, mode, locale,
                 triggered, seeded, gen, pub>>

\* checkForNewCommits resumes with the commits fetched.
TickLoop(t) ==
  /\ ticks[t].pc = "fetched"
  /\ Resume(t, [ticks[t] EXCEPT !.wm = IF mode = "poll" THEN lastCheckedCommits ELSE <<>>],
            ticks[t].commits)
  /\ UNCHANGED <<hist, pushes, userStates, initp, cmds, mode, locale, gen, faults, pub>>

\* generateSummary returned: derive the project name, call generatePost.
TickSummOk(t, summary) ==
  /\ ticks[t].pc = "summ"
  /\ ticks' = [ticks EXCEPT ![t].pc = "comp", ![t].summ = summary]
  /\ last' = Note([op |-> "compose", cmd |-> "tick"])
  /\ UNCHANGED <<hist, pushes, userStates, lastCheckedCommits, initp, cmds, mode, locale,
                 triggered, seeded, gen, faults, pub>>

\* generateSummary threw: the catch block of processNewCommit sends the error.
TickSummFail(t) ==
  /\ ticks[t].pc = "summ"
  /\ ticks' = [ticks EXCEPT ![t].pc = "errSend"]
  /\ last' = Note([op |-> "failed", cmd |-> "tick"])
  /\ faults' = Fault({ticks[t].cur[1].sha})
  /\ UNCHANGED <<hist, pushes, userStates, lastCheckedCommits, initp, cmds, mode, locale,
                 triggered, seeded, gen, pub>>

\* A processNewCommit that keeps a draft still awaiting its decision.
TickCompOkKeepsPending(t, content) ==
  /\ ticks[t].pc = "comp"
  /\ LET commit == ticks[t].cur[1]
         projectName == ProjectNameOf(commit.repo)
     IN userStates' = [userStates EXCEPT ![AutoKey] =
          IF @.exists /\ @.pendingPost THEN @
          ELSE AutoState(commit, ticks[t].summ, PostText(projectName, content), projectName)]
  /\ cmds' = Detach(cmds, AutoKey)
  /\ ticks' = [ticks EXCEPT ![t].pc = "notify"]
  /\ last' = IF mode = "draft"
             THEN [op |-> "drafted", cmd |-> "tick", key |-> AutoKey,
                   prior |-> userStates[AutoKey]]
             ELSE Note([op |-> "drafted", cmd |-> "tick", key |-> AutoKey])
  /\ UNCHANGED <<hist, pushes, lastCheckedCommits, initp, mode, locale, triggered, seeded, gen, faults, pub>>

\* generatePost returned: store the auto session, send the notification.  (The
\* event tells the session that was stored under the key before.)
TickCompOk(t, content) ==
  /\ ticks[t].pc = "comp"
  /\ LET commit == ticks[t].cur[1]
         projectName == ProjectNameOf(commit.repo)
     IN userStates' = [userStates EXCEPT ![AutoKey] =
          AutoState(commit, ticks[t].summ, PostText(projectName, content), projectName)]
  /\ cmds' = Detach(cmds, AutoKey)
  /\ ticks' = [ticks EXCEPT ![t].pc = "notify"]
  /\ last' = IF mode = "draft"
             THEN [op |-> "drafted", cmd |-> "tick", key |-> AutoKey,
                   prior |-> userStates[AutoKey]]
             ELSE Note([op |-> "drafted", cmd |-> "tick", key |-> AutoKey])
  /\ UNCHANGED <<hist, pushes, lastCheckedCommits, initp, mode, locale, triggered, seeded, gen, faults, pub>>

\* generatePost threw: the catch block of processNewCommit sends the error.
TickCompFail(t) ==
  /\ ticks[t].pc = "comp"
  /\ ticks' = [ticks EXCEPT ![t].pc = "errSend"]
  /\ last' = Note([op |-> "failed", cmd |-> "tick"])
  /\ faults' = Fault({ticks[t].cur[1].sha})
  /\ UNCHANGED <<hist, pushes, userStates, lastCheckedCommits, initp, cmds, mode, locale,
                 triggered, seeded, gen, pub>>

\* The notification was sent: processNewCommit returns, the loop goes on.
TickNotifyOk(t) ==
  /\ ticks[t].pc = "notify"
  /\ Resume(t, ticks[t], ticks[t].commits)
  /\ UNCHANGED <<hist, pushes, userStates, initp, cmds, mode, locale, gen, faults, pub>>

\* channel.send of the notification threw: the catch block sends the error.
TickNotifyFail(t) ==
  /\ ticks[t].pc = "notify"
  /\ ticks' = [ticks EXCEPT ![t].pc = "errSend"]
  /\ last' = Note([op |-> "failed", cmd |-> "tick"])
  /\ faults' = Fault({})
  /\ UNCHANGED <<hist, pushes, userStates, lastCheckedCommits, initp, cmds, mode, locale,
                 triggered, seeded, gen, pub>>

\* The error message was sent: processNewCommit returns, the loop goes on.
TickErrSendOk(t) ==
  /\ ticks[t].pc = "errSend"
  /\ Resume(t, ticks[t], ticks[t].commits)
  /\ UNCHANGED <<hist, pushes, userStates, initp, cmds, mode, locale, gen, faults, pub>>

\* channel.send inside the catch block threw: processNewCommit rejects, the
\* catch block of checkForNewCommits logs it and the tick ends.
TickErrSendFail(t) ==
  /\ ticks[t].pc = "errSend"
  /\ ticks' = [ticks EXCEPT ![t] = IdleTick]
  /\ last' = NotePoll([op |-> "tickEnd", heads |-> ticks[t].heads, wm |-> ticks[t].wm,
                       drafted |-> ticks[t].drafted, after |-> ticks[t].after])
  /\ UNCHANGED <<hist, pushes, userStates, lastCheckedCommits, initp, cmds, mode, locale,
                 triggered, seeded, gen, faults, pub>>

(***************************************************************************)
(* !run                                                                    *)
(***************************************************************************)
\* A !run that only refreshes the commits of a session already stored.
RunKeepsDraft(c, ok) ==
  /\ MayStart(c)
  /\ LET commits == getRecentCommitsFromRepos(hist, ok, DetailsTried, ListCount)
     IN IF commits = <<>>
        THEN /\ last' = (IF mode \in {"seq", "race"}
                      THEN [op |-> "reply", text |-> "No commits found"]
                      ELSE NoEvent)
             /\ UNCHANGED <<userStates, cmds>>
        ELSE /\ userStates' = [userStates EXCEPT ![User] =
                  IF @.exists THEN [@ EXCEPT !.commits = commits]
                  ELSE ListedState(commits)]
             /\ cmds' = Detach(cmds, User)
             /\ last' = (IF mode \in {"seq", "race"}
                      THEN [op |-> "listed", commits |-> commits,
                            snap |-> userStates[User]]
                      ELSE NoEvent)
  /\ UNCHANGED <<hist, pushes, lastCheckedCommits, initp, ticks, mode, locale, triggered,
                 seeded, gen, faults, pub>>

\* The whole handler.  It reads no state before its only await, the fetch of
\* getRecentCommitsFromRepos(repos, token, 5), so it is one step taken when
\* the fetch returns: reply 'No commits found', or store and list.
Run(c, ok) ==
  /\ MayStart(c)
  /\ LET commits == getRecentCommitsFromRepos(hist, ok, DetailsTried, ListCount)
     IN IF commits = <<>>
        THEN /\ last' = (IF mode \in {"seq", "race"}
                      THEN [op |-> "reply", text |-> "No commits found"]
                      ELSE NoEvent)
             /\ UNCHANGED <<userStates, cmds>>
        ELSE /\ userStates' = [userStates EXCEPT ![User] = ListedState(commits)]
             /\ cmds' = Detach(cmds, User)
             /\ last' = (IF mode \in {"seq", "race"}
                      THEN [op |-> "listed", commits |-> commits,
                            snap |-> userStates[User]]
                      ELSE NoEvent)
  /\ UNCHANGED <<hist, pushes, lastCheckedCommits, initp, ticks, mode, locale, triggered,
                 seeded, gen, faults, pub>>

(***************************************************************************)
(* !repo <numbers>                                                         *)
(***************************************************************************)
Digits == <<"0", "1", "2", "3", "4", "5", "6", "7", "8", "9">>
IsDigit(ch) == \E d \in 1..10 : Digits[d] = ch
DigitVal(ch) == (CHOOSE d \in 1..10 : Digits[d] = ch) - 1
NaN == [nan |-> TRUE]
Num(n) == [nan |-> FALSE, val |-> n]

\* The value of the longest prefix of decimal digits of t, read after acc.
RECURSIVE DigitsValue(_, _)
DigitsValue(t, acc) ==
  IF t = <<>> \/ ~IsDigit(t[1]) THEN acc
  ELSE DigitsValue(Tail(t), 10 * acc + DigitVal(t[1]))

\* parseInt(s.trim()) of a token without blanks: an optional sign, then the
\* longest prefix of digits; NaN when there is no digit; what follows the
\* digits is ignored.  A token starting 0x is read as hexadecimal.
UnsignedParse(t) ==
  IF t = <<>> THEN NaN
  ELSE IF Len(t) >= 2 /\ t[1] = "0" /\ t[2] = "x"
       THEN (IF Len(t) >= 3 /\ IsDigit(t[3]) THEN Num(DigitsValue(SubSeq(t, 3, Len(t)), 0)) ELSE NaN)
  ELSE IF IsDigit(t[1]) THEN Num(DigitsValue(t, 0))
  ELSE NaN

Negate(v) == IF v.nan THEN v ELSE Num(0 - v.val)

parseInt(t) ==
  IF t # <<>> /\ t[1] = "-" THEN Negate(UnsignedParse(Tail(t)))
  ELSE IF t # <<>> /\ t[1] = "+" THEN UnsignedParse(Tail(t))
  ELSE UnsignedParse(t)

\* (n) => !isNaN(n) && n >= 0 && n < state.commits.length, on parseInt(s) - 1.
KeepIndex(v, n) == ~v.nan /\ v.val - 1 >= 0 /\ v.val - 1 < n

\* args.split(',').map(parseInt - 1).filter(...): the 0-based indices kept,
\* given here 1-based as TLA+ sequences are.
RECURSIVE selectedIndices(_, _)
selectedIndices(args, n) ==
  IF args = <<>> THEN <<>>
  ELSE (IF KeepIndex(parseInt(args[1]), n) THEN <<parseInt(args[1]).val>> ELSE <<>>)
         \o selectedIndices(Tail(args), n)

\* selectedIndices.map((i) => state.commits[i])
CommitsAt(commits, idx) == [j \in 1..Len(idx) |-> commits[idx[j]]]

\* The !repo commands tried: what follows "!repo ", split at the commas, each
\* token a sequence of characters.  "!repo ," gives two empty tokens.
ArgLists ==
  { <<<<"1">>>>, <<<<"2">>>>, <<<<"1">>, <<"2">>>>,
    <<<<>>, <<>>>>, <<<<"x">>>>, <<<<"0">>>>, <<<<"-", "1">>>>, <<<<"9">>>>,
    <<<<"0">>, <<"x">>, <<"9">>>>,
    <<<<"2", "x">>>>, <<<<"1">>, <<"9">>>> }

\* The interleaved runs try one command of each kind, one summary text and
\* one post text; the runs of racing !repo handlers try two valid commands;
\* the other runs try them all.
CommandsTried ==
  IF mode \in {"free", "producers"} THEN {<<<<"1">>>>, <<<<"x">>>>}
  ELSE IF mode \in {"race", "postrace", "detach"} THEN {<<<<"1">>>>, <<<<"2">>>>}
  ELSE ArgLists

SummariesTried == IF mode \in {"free", "producers"} THEN {"s1"} ELSE Summaries

ContentsTried == IF mode \in {"free", "producers"} THEN {"t1"} ELSE Contents

\* From the command to the await of generateSummary.
RepoStart(c, args) ==
  /\ MayStart(c)
  /\ LET state == userStates[User]
         idx == selectedIndices(args, Len(state.commits))
     IN IF ~state.exists \/ Len(state.commits) = 0
        THEN /\ last' = Note([op |-> "rejected", cmd |-> "repo"])
             /\ UNCHANGED <<userStates, cmds>>
        ELSE IF Len(idx) = 0
        THEN /\ last' = Note([op |-> "rejected", cmd |-> "repo"])
             /\ UNCHANGED <<userStates, cmds>>
        ELSE /\ userStates' = [userStates EXCEPT
                  ![User].selectedCommits = CommitsAt(state.commits, idx),
                  ![User].pendingPost = FALSE]
             /\ cmds' = [cmds EXCEPT ![c] =
                  [IdleCmd EXCEPT !.pc = "repoSumm", !.key = User, !.att = TRUE,
                                  !.pn = ProjectNameOf(state.commits[idx[1]].repo),
                                  !.snap = Snapshot(state),
                                  !.args = IF mode \in {"seq", "race"} THEN args
                                                                        ELSE <<>>]]
             /\ last' = Note([op |-> "summarize", cmd |-> "repo"])
  /\ UNCHANGED <<hist, pushes, lastCheckedCommits, initp, ticks, mode, locale, triggered,
                 seeded, gen, faults, pub>>

\* A !repo that marks the session pending as soon as the summary is stored.
RepoSummOkPendingEarly(c, summary) ==
  /\ cmds[c].pc = "repoSumm"
  /\ userStates' =
       IF cmds[c].att
       THEN [userStates EXCEPT ![cmds[c].key].generatedSummary = summary,
                               ![cmds[c].key].projectName = cmds[c].pn,
                               ![cmds[c].key].pendingPost = TRUE]
       ELSE userStates
  /\ cmds' = [cmds EXCEPT ![c].pc = "repoComp"]
  /\ last' = Note([op |-> "compose", cmd |-> "repo"])
  /\ UNCHANGED <<hist, pushes, lastCheckedCommits, initp, ticks, mode, locale, triggered,
                 seeded, gen, faults, pub>>

\* generateSummary returned: store it and the project name, call generatePost.
RepoSummOk(c, summary) ==
  /\ cmds[c].pc = "repoSumm"
  /\ LET projectName == cmds[c].pn
     IN /\ userStates' =
             IF cmds[c].att
             THEN [userStates EXCEPT ![cmds[c].key].generatedSummary = summary,
                                     ![cmds[c].key].projectName = projectName]
             ELSE userStates
        /\ cmds' = [cmds EXCEPT ![c].pc = "repoComp",
                                ![c].summ = IF mode = "race" THEN summary ELSE Null]
        /\ last' = Note([op |-> "compose", cmd |-> "repo"])
  /\ UNCHANGED <<hist, pushes, lastCheckedCommits, initp, ticks, mode, locale, triggered,
                 seeded, gen, faults, pub>>

\* generateSummary threw: the catch block replies with the error.
RepoSummFail(c) ==
  /\ cmds[c].pc = "repoSumm"
  /\ cmds' = [cmds EXCEPT ![c] = IdleCmd]
  /\ last' = Note([op |-> "failed", cmd |-> "repo", key |-> cmds[c].key,
              snap |-> cmds[c].snap])
  /\ UNCHANGED <<hist, pushes, userStates, lastCheckedCommits, initp, ticks, mode, locale,
                 triggered, seeded, gen, faults, pub>>

\* A !repo that stores its post in whatever session is under its key now.
RepoCompOkByKey(c, content) ==
  /\ cmds[c].pc = "repoComp"
  /\ LET post == PostText(cmds[c].pn, content)
     IN /\ userStates' =
             [userStates EXCEPT ![cmds[c].key].exists = TRUE,
                                ![cmds[c].key].generatedPost = post,
                                ![cmds[c].key].pendingPost = TRUE]
        /\ last' = IF mode \in {"race", "detach"}
                   THEN [op |-> "drafted", cmd |-> "repo", key |-> cmds[c].key,
                         att |-> cmds[c].att, args |-> cmds[c].args,
                         summ |-> cmds[c].summ, pn |-> cmds[c].pn, post |-> post]
                   ELSE Note([op |-> "drafted", cmd |-> "repo", key |-> cmds[c].key,
                              snap |-> cmds[c].snap, args |-> cmds[c].args])
  /\ cmds' = [cmds EXCEPT ![c] = IdleCmd]
  /\ UNCHANGED <<hist, pushes, lastCheckedCommits, initp, ticks, mode, locale, triggered,
                 seeded, gen, faults, pub>>

\* generatePost returned: store the post, set pendingPost, reply.
RepoCompOk(c, content) ==
  /\ cmds[c].pc = "repoComp"
  /\ LET post == PostText(cmds[c].pn, content)
     IN /\ userStates' =
             IF cmds[c].att
             THEN [userStates EXCEPT ![cmds[c].key].generatedPost = post,
                                     ![cmds[c].key].pendingPost = TRUE]
             ELSE userStates
        /\ last' = IF mode \in {"race", "detach"}
                   THEN [op |-> "drafted", cmd |-> "repo", key |-> cmds[c].key,
                         att |-> cmds[c].att, args |-> cmds[c].args,
                         summ |-> cmds[c].summ, pn |-> cmds[c].pn, post |-> post]
                   ELSE Note([op |-> "drafted", cmd |-> "repo", key |-> cmds[c].key,
                              snap |-> cmds[c].snap, args |-> cmds[c].args])
  /\ cmds' = [cmds EXCEPT ![c] = IdleCmd]
  /\ UNCHANGED <<hist, pushes, lastCheckedCommits, initp, ticks, mode, locale, triggered,
                 seeded, gen, faults, pub>>

\* generatePost threw: the catch block replies with the error.
RepoCompFail(c) ==
  /\ cmds[c].pc = "repoComp"
  /\ cmds' = [cmds EXCEPT ![c] = IdleCmd]
  /\ last' = Note([op |-> "failed", cmd |-> "repo", key |-> cmds[c].key,
              snap |-> cmds[c].snap])
  /\ UNCHANGED <<hist, pushes, userStates, lastCheckedCommits, initp, ticks, mode, locale,
                 triggered, seeded, gen, faults, pub>>

(***************************************************************************)
(* !redo and regeneratePost                                                *)
(***************************************************************************)
\* The key of the session !redo acts on, Null when the command is refused:
\* the user's session if it has a summary, else the channel's if it has one.
RedoKey ==
  IF userStates[User].exists /\ Truthy(userStates[User].generatedSummary) THEN User
  ELSE IF userStates[AutoKey].exists /\ Truthy(userStates[AutoKey].generatedSummary)
       THEN AutoKey
  ELSE Null

\* From the command to the await of generatePost inside regeneratePost.
RedoStart(c) ==
  /\ MayStart(c)
  /\ IF RedoKey = Null
     THEN /\ last' = Note([op |-> "rejected", cmd |-> "redo"])
          /\ UNCHANGED cmds
     ELSE LET state == userStates[RedoKey]
          IN IF ~Truthy(state.generatedSummary) \/ ~Truthy(state.projectName)
             THEN /\ last' = Note([op |-> "rejected", cmd |-> "redo"])
                  /\ UNCHANGED cmds
             ELSE /\ cmds' = [cmds EXCEPT ![c] =
                       [IdleCmd EXCEPT !.pc = "redoComp", !.key = RedoKey, !.att = TRUE,
                                       !.pn = state.projectName,
                                       !.snap = Snapshot(state)]]
                  /\ last' = Note([op |-> "compose", cmd |-> "redo"])
  /\ UNCHANGED <<hist, pushes, userStates, lastCheckedCommits, initp, ticks, mode, locale,
                 triggered, seeded, gen, faults, pub>>

\* A regeneratePost that forgets the summary it composed from.
RedoCompOkDropsSummary(c, content) ==
  /\ cmds[c].pc = "redoComp"
  /\ userStates' =
       IF cmds[c].att
       THEN [userStates EXCEPT
               ![cmds[c].key].generatedPost = PostText(cmds[c].pn, content),
               ![cmds[c].key].generatedSummary = Null,
               ![cmds[c].key].pendingPost = TRUE]
       ELSE userStates
  /\ last' = Note([op |-> "drafted", cmd |-> "redo", key |-> cmds[c].key,
              snap |-> cmds[c].snap])
  /\ cmds' = [cmds EXCEPT ![c] = IdleCmd]
  /\ UNCHANGED <<hist, pushes, lastCheckedCommits, initp, ticks, mode, locale, triggered,
                 seeded, gen, faults, pub>>

\* generatePost returned: store the new post, set pendingPost, reply.
RedoCompOk(c, content) ==
  /\ cmds[c].pc = "redoComp"
  /\ userStates' =
       IF cmds[c].att
       THEN [userStates EXCEPT
               ![cmds[c].key].generatedPost = PostText(cmds[c].pn, content),
               ![cmds[c].key].pendingPost = TRUE]
       ELSE userStates
  /\ last' = Note([op |-> "drafted", cmd |-> "redo", key |-> cmds[c].key,
              snap |-> cmds[c].snap])
  /\ cmds' = [cmds EXCEPT ![c] = IdleCmd]
  /\ UNCHANGED <<hist, pushes, lastCheckedCommits, initp, ticks, mode, locale, triggered,
                 seeded, gen, faults, pub>>

\* generatePost threw: the catch block of !redo replies with the error.
RedoCompFail(c) ==
  /\ cmds[c].pc = "redoComp"
  /\ cmds' = [cmds EXCEPT ![c] = IdleCmd]
  /\ last' = Note([op |-> "failed", cmd |-> "redo", key |-> cmds[c].key,
              snap |-> cmds[c].snap])
  /\ UNCHANGED <<hist, pushes, userStates, lastCheckedCommits, initp, ticks, mode, locale,
                 triggered, seeded, gen, faults, pub>>

(***************************************************************************)
(* !no                                                                     *)
(***************************************************************************)
\* The key !no deletes, Null when there is nothing to discard: the user's
\* session if it holds a post, else the channel's session if there is one.
NoKey ==
  IF userStates[User].exists /\ Truthy(userStates[User].generatedPost) THEN User
  ELSE IF userStates[AutoKey].exists THEN AutoKey
  ELSE Null

\* The whole handler: the delete comes before its only await, the reply.
No(c) ==
  /\ MayStart(c)
  /\ IF NoKey = Null
     THEN /\ last' = Note([op |-> "rejected", cmd |-> "no"])
          /\ UNCHANGED <<userStates, cmds>>
     ELSE /\ userStates' = [userStates EXCEPT ![NoKey] = NoState]
          /\ cmds' = Detach(cmds, NoKey)
          /\ last' = Note([op |-> "discarded", cmd |-> "no", key |-> NoKey])
  /\ UNCHANGED <<hist, pushes, lastCheckedCommits, initp, ticks, mode, locale, triggered,
                 seeded, gen, faults, pub>>

(***************************************************************************)
(* !post                                                                   *)
(***************************************************************************)
\* A !post that goes on with the user's key whatever is stored under it.
PostKeyUnguarded == User

\* The key of the session !post publishes, Null when the command is refused:
\* the user's session if it holds a post, else the channel's if it holds one.
PostKey ==
  IF userStates[User].exists /\ Truthy(userStates[User].generatedPost) THEN User
  ELSE IF userStates[AutoKey].exists /\ Truthy(userStates[AutoKey].generatedPost)
       THEN AutoKey
  ELSE Null

\* A !post that takes the session out of the map before it publishes.
PostStartTakesSession(c) ==
  /\ MayStart(c)
  /\ IF PostKey = Null
     THEN /\ last' = Note([op |-> "rejected", cmd |-> "post"])
          /\ UNCHANGED <<userStates, cmds>>
     ELSE /\ userStates' = [userStates EXCEPT ![PostKey] = NoState]
          /\ cmds' = [Detach(cmds, PostKey) EXCEPT ![c] =
               [IdleCmd EXCEPT !.pc = "postPub", !.key = PostKey,
                               !.text = userStates[PostKey].generatedPost,
                               !.snap = Snapshot(userStates[PostKey])]]
          /\ last' = Note([op |-> "publish", cmd |-> "post", key |-> PostKey,
                      text |-> userStates[PostKey].generatedPost,
                      pending |-> userStates[PostKey].pendingPost])
  /\ UNCHANGED <<hist, pushes, lastCheckedCommits, initp, ticks, mode, locale,
                 triggered, seeded, gen, faults, pub>>

\* From the command to the await of postToX(state.generatedPost).
PostStart(c) ==
  /\ MayStart(c)
  /\ IF PostKey = Null
     THEN /\ last' = Note([op |-> "rejected", cmd |-> "post"])
          /\ UNCHANGED cmds
     ELSE /\ cmds' = [cmds EXCEPT ![c] =
               [IdleCmd EXCEPT !.pc = "postPub", !.key = PostKey,
                               !.text = userStates[PostKey].generatedPost,
                               !.snap = Snapshot(userStates[PostKey])]]
          /\ last' = Note([op |-> "publish", cmd |-> "post", key |-> PostKey,
                      text |-> userStates[PostKey].generatedPost,
                      pending |-> userStates[PostKey].pendingPost])
  /\ UNCHANGED <<hist, pushes, userStates, lastCheckedCommits, initp, ticks, mode, locale,
                 triggered, seeded, gen, faults, pub>>

\* postToX resolved: await message.reply('Successfully posted to X!').
PostPubOk(c) ==
  /\ cmds[c].pc = "postPub"
  /\ cmds' = [cmds EXCEPT ![c].pc = "postReply"]
  /\ last' = Note([op |-> "published", cmd |-> "post", key |-> cmds[c].key])
  /\ UNCHANGED <<hist, pushes, userStates, lastCheckedCommits, initp, ticks, mode, locale,
                 triggered, seeded, gen, faults, pub>>

\* A !post that drops the session whether or not postToX succeeded.
PostPubFailDropsSession(c) ==
  /\ cmds[c].pc = "postPub"
  /\ userStates' = [userStates EXCEPT ![cmds[c].key] = NoState]
  /\ cmds' = [cmds EXCEPT ![c] = IdleCmd]
  /\ last' = Note([op |-> "failed", cmd |-> "post", key |-> cmds[c].key,
              snap |-> cmds[c].snap])
  /\ UNCHANGED <<hist, pushes, lastCheckedCommits, initp, ticks, mode, locale, triggered,
                 seeded, gen, faults, pub>>

\* postToX threw: the catch block replies with the error.
PostPubFail(c) ==
  /\ cmds[c].pc = "postPub"
  /\ cmds' = [cmds EXCEPT ![c] = IdleCmd]
  /\ last' = Note([op |-> "failed", cmd |-> "post", key |-> cmds[c].key,
              snap |-> cmds[c].snap])
  /\ UNCHANGED <<hist, pushes, userStates, lastCheckedCommits, initp, ticks, mode, locale,
                 triggered, seeded, gen, faults, pub>>

\* A !post that deletes the session only if it still holds the text published.
PostReplyOkIfSame(c) ==
  /\ cmds[c].pc = "postReply"
  /\ userStates' =
       IF userStates[cmds[c].key].generatedPost = cmds[c].text
       THEN [userStates EXCEPT ![cmds[c].key] = NoState]
       ELSE userStates
  /\ cmds' = [Detach(cmds, cmds[c].key) EXCEPT ![c] = IdleCmd]
  /\ last' = IF mode \in {"seq", "postrace"}
             THEN [op |-> "posted", cmd |-> "post", key |-> cmds[c].key, replied |-> TRUE,
                   text |-> cmds[c].text, deleted |-> userStates[cmds[c].key]]
             ELSE NoEvent
  /\ UNCHANGED <<hist, pushes, lastCheckedCommits, initp, ticks, mode, locale, triggered,
                 seeded, gen, faults, pub>>

\* The success reply was sent: userStates.delete(key).  The event tells the
\* text that was published and the session that was stored under the key.
PostReplyOk(c) ==
  /\ cmds[c].pc = "postReply"
  /\ userStates' = [userStates EXCEPT ![cmds[c].key] = NoState]
  /\ cmds' = [Detach(cmds, cmds[c].key) EXCEPT ![c] = IdleCmd]
  /\ last' = IF mode \in {"seq", "postrace"}
             THEN [op |-> "posted", cmd |-> "post", key |-> cmds[c].key, replied |-> TRUE,
                   text |-> cmds[c].text, deleted |-> userStates[cmds[c].key]]
             ELSE NoEvent
  /\ UNCHANGED <<hist, pushes, lastCheckedCommits, initp, ticks, mode, locale, triggered,
                 seeded, gen, faults, pub>>

\* The success reply threw: the catch block is entered, the delete is skipped.
PostReplyFail(c) ==
  /\ cmds[c].pc = "postReply"
  /\ cmds' = [cmds EXCEPT ![c] = IdleCmd]
  /\ last' = Note([op |-> "posted", cmd |-> "post", key |-> cmds[c].key,
              replied |-> FALSE])
  /\ UNCHANGED <<hist, pushes, userStates, lastCheckedCommits, initp, ticks, mode, locale,
                 triggered, seeded, gen, faults, pub>>

Next ==
  \/ \E r \in RepoSet, d \in 1..MaxDate : Push(r, d)
  \/ \E ok \in FetchOutcomes : InitServe(ok)
  \/ InitStore
  \/ \E t \in TickSlots, chanOk \in BOOLEAN, ok \in FetchOutcomes : TickServe(t, chanOk, ok)
  \/ \E t \in TickSlots : TickLoop(t)
  \/ \E t \in TickSlots, s \in SummariesTried : TickSummOk(t, s)
  \/ \E t \in TickSlots : TickSummFail(t)
  \/ \E t \in TickSlots, c \in ContentsTried : TickCompOk(t, c)
  \/ \E t \in TickSlots : TickCompFail(t)
  \/ \E t \in TickSlots : TickNotifyOk(t)
  \/ \E t \in TickSlots : TickNotifyFail(t)
  \/ \E t \in TickSlots : TickErrSendOk(t)
  \/ \E t \in TickSlots : TickErrSendFail(t)
  \/ \E c \in CmdSlots, ok \in FetchOutcomes : Run(c, ok)
  \/ \E c \in CmdSlots, args \in CommandsTried : RepoStart(c, args)
  \/ \E c \in CmdSlots, s \in SummariesTried : RepoSummOk(c, s)
  \/ \E c \in CmdSlots : RepoSummFail(c)
  \/ \E c \in CmdSlots, t \in ContentsTried : RepoCompOk(c, t)
  \/ \E c \in CmdSlots : RepoCompFail(c)
  \/ \E c \in CmdSlots : RedoStart(c)
  \/ \E c \in CmdSlots, t \in ContentsTried : RedoCompOk(c, t)
  \/ \E c \in CmdSlots : RedoCompFail(c)
  \/ \E c \in CmdSlots : No(c)
  \/ \E c \in CmdSlots : PostStart(c)
  \/ \E c \in CmdSlots : PostPubOk(c)
  \/ \E c \in CmdSlots : PostPubFail(c)
  \/ \E c \in CmdSlots : PostReplyOk(c)
  \/ \E c \in CmdSlots : PostReplyFail(c)

Spec == Init /\ [][Next]_vars

SpecSeq == InitSeq /\ [][Next]_vars

\* One handler or tick at a time again, where every fetch, every send and
\* every provider call of the watcher, of !run and of !repo succeeds.
InitSeqOk == InitBase /\ mode = "seqok" /\ locale = "en-US"

NextSeqOk ==
  \/ \E r \in RepoSet, d \in 1..MaxDate : Push(r, d)
  \/ \E ok \in FetchOutcomes : InitServe(ok)
  \/ InitStore
  \/ \E t \in TickSlots : TickServe(t, TRUE, RepoSet)
  \/ \E t \in TickSlots : TickLoop(t)
  \/ \E t \in TickSlots, s \in SummariesTried : TickSummOk(t, s)
  \/ \E t \in TickSlots, c \in ContentsTried : TickCompOk(t, c)
  \/ \E t \in TickSlots : TickNotifyOk(t)
  \/ \E c \in CmdSlots : Run(c, RepoSet)
  \/ \E c \in CmdSlots, args \in CommandsTried : RepoStart(c, args)
  \/ \E c \in CmdSlots, s \in SummariesTried : RepoSummOk(c, s)
  \/ \E c \in CmdSlots, t \in ContentsTried : RepoCompOk(c, t)
  \/ \E c \in CmdSlots : RedoStart(c)
  \/ \E c \in CmdSlots, t \in ContentsTried : RedoCompOk(c, t)
  \/ \E c \in CmdSlots : RedoCompFail(c)
  \/ \E c \in CmdSlots : No(c)
  \/ \E c \in CmdSlots : PostStart(c)
  \/ \E c \in CmdSlots : PostPubOk(c)
  \/ \E c \in CmdSlots : PostPubFail(c)
  \/ \E c \in CmdSlots : PostReplyOk(c)
  \/ \E c \in CmdSlots : PostReplyFail(c)

SpecSeqOk == InitSeqOk /\ [][NextSeqOk]_vars

NextPoll ==
  \/ \E r \in RepoSet, d \in 1..MaxDate : Push(r, d)
  \/ \E ok \in FetchOutcomes : InitServe(ok)
  \/ InitStore
  \/ \E t \in TickSlots, chanOk \in BOOLEAN, ok \in FetchOutcomes : TickServe(t, chanOk, ok)
  \/ \E t \in TickSlots : TickLoop(t)
  \/ \E t \in TickSlots, s \in SummariesTried : TickSummOk(t, s)
  \/ \E t \in TickSlots : TickSummFail(t)
  \/ \E t \in TickSlots, c \in ContentsTried : TickCompOk(t, c)
  \/ \E t \in TickSlots : TickCompFail(t)
  \/ \E t \in TickSlots : TickNotifyOk(t)
  \/ \E t \in TickSlots : TickNotifyFail(t)
  \/ \E t \in TickSlots : TickErrSendOk(t)
  \/ \E t \in TickSlots : TickErrSendFail(t)

SpecPoll == InitPoll /\ [][NextPoll]_vars

\* The watcher alone with every call succeeding, and one more push.
InitDraft == InitBase /\ mode = "draft" /\ locale = "en-US"

NextDraft ==
  \/ \E r \in RepoSet, d \in 1..MaxDate : Push(r, d)
  \/ InitServe(RepoSet)
  \/ InitStore
  \/ \E t \in TickSlots : TickServe(t, TRUE, RepoSet)
  \/ \E t \in TickSlots : TickLoop(t)
  \/ \E t \in TickSlots, s \in SummariesTried : TickSummOk(t, s)
  \/ \E t \in TickSlots, c \in ContentsTried : TickCompOk(t, c)
  \/ \E t \in TickSlots : TickNotifyOk(t)

SpecDraft == InitDraft /\ [][NextDraft]_vars

(***************************************************************************)
(* generatePost as a process: one call at a time, cut at the awaits of     *)
(* generateWithPrompt.                                                     *)
(***************************************************************************)
OthersUnchanged ==
  UNCHANGED <<hist, pushes, userStates, lastCheckedCommits, initp, ticks, cmds,
              mode, locale, last, triggered, seeded, faults, pub>>

\* generatePost(summary, projectName) is called with X_CHARACTER_LIMIT = limit;
\* it runs to the await of the first generateWithPrompt.
GenCall(limit, name) ==
  /\ gen.pc \in {"idle", "done", "failed"}
  /\ gen' = GenRec("first", limit, name, <<>>, 1, <<>>)
  /\ OthersUnchanged

\* The first provider call returned text: retry when the post is too long
\* (the stricter prompt does not quote the first post, which the retry's
\* result overwrites; its length is remembered in firstLen).
GenFirstOk(text) ==
  /\ gen.pc = "first"
  /\ LET post == Trim(CleanResponse(text))
     IN gen' = [(IF Len(post) > maxPostLength(gen.limit, gen.name)
                 THEN GenRec("retry", gen.limit, gen.name, <<>>, 2, <<>>)
                 ELSE Finish(gen.limit, gen.name, post, gen.calls))
                EXCEPT !.firstLen = Len(post)]
  /\ OthersUnchanged

\* A provider call threw: generatePost rejects.
GenFail ==
  /\ gen.pc \in {"first", "retry"}
  /\ gen' = [gen EXCEPT !.pc = "failed"]
  /\ OthersUnchanged

\* A generatePost that asks again as long as the post is too long.
GenRetryOkAgain(text) ==
  /\ gen.pc = "retry"
  /\ LET post == Trim(CleanResponse(text))
     IN gen' = [(IF Len(post) > maxPostLength(gen.limit, gen.name)
                 THEN GenRec("retry", gen.limit, gen.name, <<>>, gen.calls + 1, <<>>)
                 ELSE Finish(gen.limit, gen.name, post, gen.calls))
                EXCEPT !.firstLen = gen.firstLen]
  /\ OthersUnchanged

\* The stricter call returned text.
GenRetryOk(text) ==
  /\ gen.pc = "retry"
  /\ gen' = [Finish(gen.limit, gen.name, Trim(CleanResponse(text)), gen.calls)
             EXCEPT !.firstLen = gen.firstLen]
  /\ OthersUnchanged

\* One call of getRecentCommitsFromRepos(repos, token, count): the fetches of
\* the repositories in ok succeed, as do the detail requests of the commits
\* in dok; the call returns the list recorded.
Fetch(ok, dok, count) ==
  /\ mode = "fetch"
  /\ last' = [op |-> "fetched", ok |-> ok, dok |-> dok, count |-> count,
              commits |-> getRecentCommitsFromRepos(hist, ok, dok, count)]
  /\ UNCHANGED <<hist, pushes, userStates, lastCheckedCommits, initp, ticks, cmds,
                 mode, locale, triggered, seeded, gen, faults, pub>>

NextFetch ==
  \/ \E r \in RepoSet, d \in 1..MaxDate : Push(r, d)
  \/ \E ok \in SUBSET RepoSet, dok \in SUBSET Shas, count \in {WatchCount, 2, ListCount} :
        Fetch(ok, dok, count)

SpecFetch == InitFetch /\ [][NextFetch]_vars

\* !run and !repo handlers alone, interleaving at their awaits.
NextRace ==
  \/ \E c \in CmdSlots, ok \in FetchOutcomes : Run(c, ok)
  \/ \E c \in CmdSlots, args \in CommandsTried : RepoStart(c, args)
  \/ \E c \in CmdSlots, s \in SummariesTried : RepoSummOk(c, s)
  \/ \E c \in CmdSlots : RepoSummFail(c)
  \/ \E c \in CmdSlots, t \in ContentsTried : RepoCompOk(c, t)
  \/ \E c \in CmdSlots : RepoCompFail(c)

SpecRace == InitRace /\ [][NextRace]_vars

\* !run, !repo and !post handlers alone, interleaving at their awaits.
InitPostRace == InitBase /\ mode = "postrace" /\ locale = "en-US"

NextPostRace ==
  \/ \E c \in CmdSlots, ok \in FetchOutcomes : Run(c, ok)
  \/ \E c \in CmdSlots, args \in CommandsTried : RepoStart(c, args)
  \/ \E c \in CmdSlots, s \in SummariesTried : RepoSummOk(c, s)
  \/ \E c \in CmdSlots, t \in ContentsTried : RepoCompOk(c, t)
  \/ \E c \in CmdSlots : PostStart(c)
  \/ \E c \in CmdSlots : PostPubOk(c)
  \/ \E c \in CmdSlots : PostPubFail(c)
  \/ \E c \in CmdSlots : PostReplyOk(c)
  \/ \E c \in CmdSlots : PostReplyFail(c)

SpecPostRace == InitPostRace /\ [][NextPostRace]_vars

\* !run, !repo, !no and !post handlers alone, interleaving at their awaits.
InitDetach == InitBase /\ mode = "detach" /\ locale = "en-US"

NextDetach ==
  \/ \E c \in CmdSlots, ok \in FetchOutcomes : Run(c, ok)
  \/ \E c \in CmdSlots, args \in CommandsTried : RepoStart(c, args)
  \/ \E c \in CmdSlots, s \in SummariesTried : RepoSummOk(c, s)
  \/ \E c \in CmdSlots : RepoSummFail(c)
  \/ \E c \in CmdSlots, t \in ContentsTried : RepoCompOk(c, t)
  \/ \E c \in CmdSlots : RepoCompFail(c)
  \/ \E c \in CmdSlots : No(c)
  \/ \E c \in CmdSlots : PostStart(c)
  \/ \E c \in CmdSlots : PostPubOk(c)
  \/ \E c \in CmdSlots : PostPubFail(c)
  \/ \E c \in CmdSlots : PostReplyOk(c)
  \/ \E c \in CmdSlots : PostReplyFail(c)

SpecDetach == InitDetach /\ [][NextDetach]_vars

(***************************************************************************)
(* The two producers of sessions side by side: the watcher (startup        *)
(* seeding and timer ticks) and the !run and !repo handlers, interleaving  *)
(* at their awaits.                                                        *)
(***************************************************************************)
InitProducers == InitBase /\ mode = "producers" /\ locale = "en-US"

\* A step of the startup seeding or of a timer tick.
WatcherStep ==
  \/ \E ok \in FetchOutcomes : InitServe(ok)
  \/ InitStore
  \/ \E t \in TickSlots, chanOk \in BOOLEAN, ok \in FetchOutcomes : TickServe(t, chanOk, ok)
  \/ \E t \in TickSlots : TickLoop(t)
  \/ \E t \in TickSlots, s \in SummariesTried : TickSummOk(t, s)
  \/ \E t \in TickSlots : TickSummFail(t)
  \/ \E t \in TickSlots, c \in ContentsTried : TickCompOk(t, c)
  \/ \E t \in TickSlots : TickCompFail(t)
  \/ \E t \in TickSlots : TickNotifyOk(t)
  \/ \E t \in TickSlots : TickNotifyFail(t)
  \/ \E t \in TickSlots : TickErrSendOk(t)
  \/ \E t \in TickSlots : TickErrSendFail(t)

\* A step of a !run or of a !repo handler.
ListOrSelectStep ==
  \/ \E c \in CmdSlots, ok \in FetchOutcomes : Run(c, ok)
  \/ \E c \in CmdSlots, args \in CommandsTried : RepoStart(c, args)
  \/ \E c \in CmdSlots, s \in SummariesTried : RepoSummOk(c, s)
  \/ \E c \in CmdSlots : RepoSummFail(c)
  \/ \E c \in CmdSlots, t \in ContentsTried : RepoCompOk(c, t)
  \/ \E c \in CmdSlots : RepoCompFail(c)

NextProducers ==
  \/ \E r \in RepoSet, d \in 1..MaxDate : Push(r, d)
  \/ WatcherStep
  \/ ListOrSelectStep

SpecProducers == InitProducers /\ [][NextProducers]_vars

(***************************************************************************)
(* services/xApi.ts: postToX as a process, cut at the await of the tweet.  *)
(***************************************************************************)
\* The texts published: one of every length up to MaxLen.
PubTexts == {[i \in 1..n |-> "a"] : n \in 0..MaxLen}

\* What the posting provider may throw, as far as the catch block tells the
\* errors apart: error.code, error.data.title, error instanceof Error.
TweetErrors ==
  [code : {402, 403, 401, 500}, title : {"CreditsDepleted", "Forbidden"},
   isError : BOOLEAN]

\* A catch block that looks at the code before the title.
ErrorKindCodeFirst(error) ==
  IF error.code = 402 THEN "credits"
  ELSE IF error.code = 403 THEN "permissions"
  ELSE IF error.code = 401 THEN "authentication"
  ELSE IF error.title = "CreditsDepleted" THEN "credits"
  ELSE IF error.isError THEN "rethrown"
  ELSE "failed to post"

\* The error postToX throws for a provider error: one of the three specific
\* messages, else the provider's error itself, else 'Failed to post to X'.
ErrorKind(error) ==
  IF error.code = 402 \/ error.title = "CreditsDepleted" THEN "credits"
  ELSE IF error.code = 403 THEN "permissions"
  ELSE IF error.code = 401 THEN "authentication"
  ELSE IF error.isError THEN "rethrown"
  ELSE "failed to post"

ComposeAndRestUnchanged ==
  UNCHANGED <<hist, pushes, userStates, lastCheckedCommits, initp, ticks, cmds,
              mode, locale, last, triggered, seeded, gen, faults>>

\* A postToX without the length check.
PubCallUnchecked(text, limit, creds) ==
  /\ pub.pc \in {"idle", "done", "failed"}
  /\ pub' = IF ~(pub.client \/ creds)
            THEN [pc |-> "failed", text |-> text, limit |-> limit, creds |-> creds,
                  client |-> FALSE, calls |-> 0, err |-> "credentials", cause |-> NoError]
            ELSE [pc |-> "tweet", text |-> text, limit |-> limit, creds |-> creds,
                  client |-> TRUE, calls |-> 1, err |-> Null, cause |-> NoError]
  /\ ComposeAndRestUnchanged

\* postToX(text) with X_CHARACTER_LIMIT = limit, up to the await of
\* rwClient.v2.tweet(text): the length check, then getClient (the client made
\* by an earlier call is reused, else the credentials are needed).
PubCall(text, limit, creds) ==
  /\ pub.pc \in {"idle", "done", "failed"}
  /\ pub' = IF Len(text) > limit
            THEN [pc |-> "failed", text |-> text, limit |-> limit, creds |-> creds,
                  client |-> pub.client, calls |-> 0, err |-> "length", cause |-> NoError]
            ELSE IF ~(pub.client \/ creds)
            THEN [pc |-> "failed", text |-> text, limit |-> limit, creds |-> creds,
                  client |-> FALSE, calls |-> 0, err |-> "credentials", cause |-> NoError]
            ELSE [pc |-> "tweet", text |-> text, limit |-> limit, creds |-> creds,
                  client |-> TRUE, calls |-> 1, err |-> Null, cause |-> NoError]
  /\ ComposeAndRestUnchanged

\* The tweet was accepted: postToX resolves.
PubTweetOk ==
  /\ pub.pc = "tweet"
  /\ pub' = [pub EXCEPT !.pc = "done"]
  /\ ComposeAndRestUnchanged

\* The tweet was refused: the catch block maps the error and rethrows.
PubTweetFail(error) ==
  /\ pub.pc = "tweet"
  /\ pub' = [pub EXCEPT !.pc = "failed", !.err = ErrorKind(error), !.cause = error]
  /\ ComposeAndRestUnchanged

InitPublish == InitBase /\ mode = "publish" /\ locale = "en-US"

NextPublish ==
  \/ \E text \in PubTexts, limit \in 0..MaxLimit, creds \in BOOLEAN :
        PubCall(text, limit, creds)
  \/ PubTweetOk
  \/ \E error \in TweetErrors : PubTweetFail(error)

SpecPublish == InitPublish /\ [][NextPublish]_vars

NextCompose ==
  \/ \E limit \in 0..MaxLimit, name \in ProjectNames : GenCall(limit, name)
  \/ \E text \in Texts : GenFirstOk(text)
  \/ GenFail
  \/ \E text \in Texts : GenRetryOk(text)

SpecCompose == InitCompose /\ [][NextCompose]_vars

(***************************************************************************)
(* generatePost again, with longer provider responses over fewer           *)
(* characters: the responses that reach the truncation fallback.           *)
(***************************************************************************)
PostAlphabet == {"a", " ", "."}
PostTexts == UNION {[1..n -> PostAlphabet] : n \in 0..MaxPost}

InitTruncate == InitBase /\ mode = "truncate" /\ locale = "en-US"

NextTruncate ==
  \/ \E limit \in 0..MaxLimit, name \in ProjectNames : GenCall(limit, name)
  \/ \E text \in PostTexts : GenFirstOk(text)
  \/ GenFail
  \/ \E text \in PostTexts : GenRetryOk(text)

SpecTruncate == InitTruncate /\ [][NextTruncate]_vars

(***************************************************************************)
(* Properties                                                              *)
(***************************************************************************)

\* C1: under any interleaving of the commands and the watcher, a stored
\* session whose pendingPost is true holds a generated post.
C1_PendingImpliesPost ==
  \A k \in Keys :
    userStates[k].exists /\ userStates[k].pendingPost
      => userStates[k].generatedPost # Null

\* A user's draft and the channel's draft are both pending while another
\* handler is still running.
C1_Witness ==
  /\ userStates[User].exists /\ userStates[User].pendingPost
  /\ userStates[AutoKey].exists /\ userStates[AutoKey].pendingPost
  /\ \E c \in CmdSlots : cmds[c].pc # "idle"

\* C2: !post calls postToX only for a session whose pendingPost is true.
C2_PublishOnlyWhenPending ==
  last.op = "publish" => last.pending

\* C3: when generateSummary or generatePost fails during !repo, the session
\* is field for field what it was before the command.
C3_FailedSelectLeavesSession ==
  (last.op = "failed" /\ last.cmd = "repo") => userStates[last.key] = last.snap

\* A token that is a decimal integer between 1 and n.
IsIndex(tok, n) ==
  /\ tok # <<>>
  /\ \A i \in 1..Len(tok) : IsDigit(tok[i])
  /\ DigitsValue(tok, 0) \in 1..n

\* C4: a !repo whose index list holds an entry that is not a decimal integer
\* between 1 and the number of listed commits (none listed: 0) is rejected
\* before any external call and leaves every session unchanged.
C4_BadIndexRejected ==
  [][\A c \in CmdSlots, args \in ArgLists :
       (/\ RepoStart(c, args)
        /\ \E i \in 1..Len(args) : ~IsIndex(args[i], Len(userStates[User].commits)))
       => (userStates' = userStates /\ cmds'[c].pc = "idle")]_vars

\* C5: once the watcher has fetched the current head of every repository and
\* is idle, no draft was ever triggered for the hash first recorded for a
\* repository, and a head that differs from it was drafted exactly once.
C5_OneDraftPerChange ==
  (/\ last.op = "tickEnd"
   /\ initp.pc = "done"
   /\ \A r \in RepoSet : last.heads[r] = hist[r][1].sha)
  => \A r \in RepoSet :
       seeded[r] # 0 =>
         /\ triggered[seeded[r]] = 0
         /\ hist[r][1].sha # seeded[r] => triggered[hist[r][1].sha] = 1

\* C6: a tick whose fetch succeeded for every repository leaves the watermark
\* of each repository at the latest hash it saw, and has drafted for each
\* repository whose watermark was set and differed from that hash.
C6_TickCoversEveryRepo ==
  (last.op = "tickEnd" /\ \A r \in RepoSet : last.heads[r] # 0)
  => \A r \in RepoSet :
       /\ last.wm[r] = 0 => lastCheckedCommits[r] # 0
       /\ (last.wm[r] # 0 /\ last.wm[r] # last.heads[r]) => r \in last.drafted

\* C7: without a project name, generatePost returns at most characterLimit
\* characters whatever the two provider responses are.
C7_NoNameWithinLimit ==
  (gen.pc = "done" /\ gen.name = <<>>) => Len(gen.result) <= gen.limit

\* Both provider responses were too long and the fallback kept a part.
C7_Witness ==
  /\ gen.pc = "done" /\ gen.name = <<>> /\ gen.calls = 2
  /\ Len(gen.post) > gen.limit
  /\ gen.result # <<>>

\* C8: with or without a project name, generatePost returns at most
\* characterLimit characters, also when the prefix alone is as long as the
\* limit or longer.
C8_PrefixedWithinLimit ==
  gen.pc = "done" => Len(gen.result) <= gen.limit

\* C9: a !repo with valid indices ends with exactly the commits at those
\* indices selected, a summary and a post stored and pendingPost true; a
\* !post whose postToX succeeded ends with no session under its key.
C9_ListSelectPublish ==
  /\ (/\ last.op = "drafted" /\ last.cmd = "repo"
      /\ \A i \in 1..Len(last.args) : IsIndex(last.args[i], Len(last.snap.commits)))
     => LET state == userStates[last.key]
        IN /\ state.exists
           /\ state.selectedCommits =
                [j \in 1..Len(last.args) |->
                   last.snap.commits[DigitsValue(last.args[j], 0)]]
           /\ state.generatedSummary # Null
           /\ state.generatedPost # Null
           /\ state.pendingPost
  /\ (last.op = "posted" /\ last.cmd = "post") => ~userStates[last.key].exists

\* C10: when postToX fails during !post, the session is still stored and is
\* what it was before the command.
C10_FailedPublishKeepsSession ==
  (last.op = "failed" /\ last.cmd = "post")
  => userStates[last.key].exists /\ userStates[last.key] = last.snap

\* The publication of the channel's draft failed while the user has a listing.
C10_Witness ==
  /\ last.op = "failed" /\ last.cmd = "post" /\ last.key = AutoKey
  /\ userStates[AutoKey].pendingPost
  /\ userStates[User].exists

\* C11: a !no issued while a session is stored under the user's key, whatever
\* that session holds, leaves no session under the user's key.
C11_DiscardDeletesUserSession ==
  [][\A c \in CmdSlots :
       (No(c) /\ userStates[User].exists) => ~userStates'[User].exists]_vars

\* C12: while a session is stored under the user's key, !post, !no and !redo
\* neither publish, delete nor regenerate the channel's auto session.
C12_AutoSessionOnlyWithoutUserSession ==
  [][\A c \in CmdSlots :
       userStates[User].exists =>
         /\ No(c) => userStates'[AutoKey] = userStates[AutoKey]
         /\ PostStart(c) => cmds'[c].key # AutoKey
         /\ RedoStart(c) => cmds'[c].key # AutoKey]_vars

C14_LastSelectWins ==
  (/\ last.op = "drafted" /\ last.cmd = "repo" /\ last.att
   /\ \A c \in CmdSlots : cmds[c].pc = "idle")
  => LET state == userStates[last.key]
     IN /\ state.selectedCommits =
             CommitsAt(state.commits, selectedIndices(last.args, Len(state.commits)))
        /\ state.generatedSummary = last.summ
        /\ state.projectName = last.pn
        /\ state.generatedPost = last.post

\* C15: no step of initCommits or of a tick replaces a repository's recorded
\* hash by the hash of an older commit (hashes are numbered in push order).
C15_WatermarkOnlyAdvances ==
  [][\A r \in RepoSet : lastCheckedCommits'[r] >= lastCheckedCommits[r]]_vars

\* C16: a tick that starts after something failed in an earlier tick and
\* whose fetches all succeed still drafts for every repository whose latest
\* hash differs from its watermark, and no tick touches the user's session.
C16_PollerSurvivesFailure ==
  (last.op = "tickEnd" /\ last.after /\ \A r \in RepoSet : last.heads[r] # 0)
  => /\ ~userStates[User].exists
     /\ \A r \in RepoSet :
          (last.wm[r] # 0 /\ last.wm[r] # last.heads[r]) => r \in last.drafted

\* The repository a hash belongs to.
RepoOf(sha) ==
  CHOOSE r \in RepoSet : \E i \in 1..Len(hist[r]) : hist[r][i].sha = sha

\* C19: a commit whose auto-draft failed in generateSummary or generatePost
\* has no session stored for it, its repository's watermark is not behind
\* it, and processNewCommit was called for it once only.
C19_FailedDraftNeverRetried ==
  \A sha \in faults.shas :
    /\ ~(userStates[AutoKey].exists /\ userStates[AutoKey].commits[1].sha = sha)
    /\ lastCheckedCommits[RepoOf(sha)] >= sha
    /\ triggered[sha] <= 1

\* The commits a call may return: the `count` newest of every repository
\* whose fetch succeeded, as <<repository, position>>.
Fetched(ok, count) ==
  {p \in RepoSet \X (1..(1 + MaxPush)) :
     p[1] \in ok /\ p[2] <= Min(count, Len(hist[p[1]]))}

\* The author date of the commit with this hash.
AuthorDate(sha) ==
  LET r == RepoOf(sha)
  IN hist[r][CHOOSE i \in 1..Len(hist[r]) : hist[r][i].sha = sha].date

C18_AsStated ==
  /\ pub.calls <= 1
  /\ pub.pc \in {"done", "failed"} =>
       /\ Len(pub.text) > pub.limit => (pub.pc = "failed" /\ pub.calls = 0)
       /\ Len(pub.text) <= pub.limit => pub.calls = 1

\* C18, amended: postToX of a text longer than the limit fails without a call
\* to the posting provider; postToX of a text within the limit calls it
\* exactly once when the credentials are configured (or a client was made
\* before) and not at all otherwise; no call of postToX calls it twice.
C18_PublishPrecheckNoRetry ==
  /\ pub.calls <= 1
  /\ pub.pc = "tweet" => pub.calls = 1
  /\ pub.pc \in {"done", "failed"} =>
       /\ Len(pub.text) > pub.limit => (pub.pc = "failed" /\ pub.calls = 0)
       /\ (Len(pub.text) <= pub.limit /\ (pub.creds \/ pub.client)) => pub.calls = 1
       /\ (Len(pub.text) <= pub.limit /\ ~(pub.creds \/ pub.client)) =>
            (pub.pc = "failed" /\ pub.calls = 0)

\* A text longer than the limit was refused although a client was at hand
\* from an earlier, successful call.
C18_Witness ==
  /\ pub.pc = "failed" /\ pub.err = "length" /\ pub.client
  /\ Len(pub.text) = pub.limit + 1

\* C20: generatePost makes at most two calls of generateWithPrompt; the
\* second is made exactly when the trimmed first response is longer than
\* maxPostLength; a first response within it is returned as the content as
\* it is, after one call; a failing call makes generatePost fail with no
\* further call.
C20_AtMostOneRetry ==
  [][LET max == maxPostLength(gen.limit, gen.name)
     IN /\ gen'.calls <= 2
        /\ gen.pc = "first" =>
             /\ gen.calls = 1
             /\ gen'.pc \in {"retry", "done", "failed"}
             /\ gen'.pc = "retry" => (gen'.calls = 2 /\ gen'.firstLen > max)
             /\ gen'.pc = "done" =>
                  /\ gen'.calls = 1
                  /\ gen'.firstLen <= max
                  /\ Len(gen'.post) = gen'.firstLen
                  /\ gen'.result = Prefix(gen.name) \o gen'.post
        /\ gen.pc = "retry" => (gen'.pc \in {"done", "failed"} /\ gen'.calls = 2)
        /\ gen'.pc = "failed" => gen'.calls = gen.calls]_vars

\* A prefixed post was returned after the stricter call.
C20_Witness ==
  /\ gen.pc = "done" /\ gen.calls = 2 /\ gen.name # <<>>
  /\ gen.limit > Len(Prefix(gen.name))
  /\ Len(gen.result) > Len(Prefix(gen.name))

\* The content of the post returned: the result without the prefix.
Content == SubSeq(gen.result, Len(Prefix(gen.name)) + 1, Len(gen.result))

\* generatePost returned after the stricter call, whose trimmed response was
\* longer than maxPostLength: the content comes from the fallback.
FellBack ==
  /\ gen.pc = "done" /\ gen.calls = 2
  /\ Len(gen.post) > maxPostLength(gen.limit, gen.name)

RECURSIVE Flatten(_)
Flatten(ss) == IF ss = <<>> THEN <<>> ELSE ss[1] \o Flatten(Tail(ss))

RECURSIVE JoinWords(_)
JoinWords(ws) ==
  IF ws = <<>> THEN <<>>
  ELSE IF Len(ws) = 1 THEN ws[1]
  ELSE ws[1] \o <<" ">> \o JoinWords(Tail(ws))

\* C21: when the fallback runs with a budget of at least one character, the
\* content is no longer than the budget; if some sentence of the response is
\* no longer than the budget, the content ends with a sentence terminator
\* and is a run of whole sentences of the response (trimmed); otherwise it
\* is a run of whole leading words of the response (trimmed).
C21_SentenceElseWordBoundary ==
  (FellBack /\ maxPostLength(gen.limit, gen.name) >= 1) =>
    LET max == maxPostLength(gen.limit, gen.name)
        sentences == Sentences(gen.post)
        words == SplitWords(gen.post)
    IN /\ Len(Content) <= max
       /\ IF \E i \in 1..Len(sentences) : Len(sentences[i]) <= max
          THEN /\ Content # <<>>
               /\ IsTerm(Content[Len(Content)])
               /\ \E i \in 1..Len(sentences), j \in 1..Len(sentences) :
                    i <= j /\ Content = Trim(Flatten(SubSeq(sentences, i, j)))
          ELSE \E k \in 0..Len(words) :
                 Content = Trim(JoinWords(SubSeq(words, 1, k)))

\* C22: when the fallback runs on a response that holds a non-empty word no
\* longer than the budget, the content returned is not empty.
C22_FallbackNonEmpty ==
  (/\ FellBack
   /\ \E i \in 1..Len(SplitWords(gen.post)) :
        /\ SplitWords(gen.post)[i] # <<>>
        /\ Len(SplitWords(gen.post)[i]) <= maxPostLength(gen.limit, gen.name))
  => Content # <<>>

\* C23: a !redo goes on to generatePost, and to nothing else, only for a
\* session whose summary and project name are set, and changes no session
\* before generatePost returns; when it returns, the session is what it was
\* at the command but for generatedPost, now the text returned, and
\* pendingPost, now true; when it throws, the session is what it was.
C23_RegenerateFrame ==
  [][\A c \in CmdSlots :
       /\ RedoStart(c) =>
            /\ userStates' = userStates
            /\ cmds'[c].pc \in {"idle", "redoComp"}
            /\ cmds'[c].pc = "redoComp" =>
                 /\ userStates[cmds'[c].key].exists
                 /\ userStates[cmds'[c].key].generatedSummary # Null
                 /\ userStates[cmds'[c].key].projectName # Null
                 /\ last'.op = "compose"
       /\ \A t \in Contents :
            RedoCompOk(c, t) =>
              /\ userStates'[cmds[c].key] =
                   [cmds[c].snap EXCEPT !.generatedPost = PostText(cmds[c].snap.projectName, t),
                                        !.pendingPost = TRUE]
              /\ \A k \in Keys \ {cmds[c].key} : userStates'[k] = userStates[k]
       /\ RedoCompFail(c) =>
            (userStates' = userStates /\ userStates[cmds[c].key] = cmds[c].snap)]_vars

\* A !redo replaced the channel's draft, which was pending, by another text.
C23_Witness ==
  /\ last.op = "drafted" /\ last.cmd = "redo" /\ last.key = AutoKey
  /\ last.snap.pendingPost
  /\ userStates[AutoKey].generatedPost # last.snap.generatedPost
  /\ userStates[AutoKey].generatedSummary = last.snap.generatedSummary

\* C24: a !run whose fetch returns commits leaves under the user's key a
\* session with exactly those commits, nothing selected, no summary, no
\* post, no project name and pendingPost false, whatever was stored before; a
\* !run whose fetch returns none leaves the user's session as it was; no
\* !run touches the session of the channel.
C24_ListReplacesSession ==
  [][\A c \in CmdSlots, ok \in SUBSET RepoSet :
       Run(c, ok) =>
         /\ userStates'[AutoKey] = userStates[AutoKey]
         /\ last'.op \in {"listed", "reply"}
         /\ last'.op = "listed" =>
              /\ last'.commits # <<>>
              /\ ok # {}
              /\ userStates'[User] =
                   [exists |-> TRUE, commits |-> last'.commits, selectedCommits |-> <<>>,
                    generatedSummary |-> Null, generatedPost |-> Null,
                    projectName |-> Null, pendingPost |-> FALSE]
         /\ last'.op = "reply" => (ok = {} /\ userStates'[User] = userStates[User])]_vars

\* A !run replaced a session that held a pending draft.
C24_Witness ==
  /\ last.op = "listed"
  /\ last.snap.exists /\ last.snap.pendingPost /\ last.snap.generatedPost # Null
  /\ userStates[User].exists /\ ~userStates[User].pendingPost
  /\ userStates[User].generatedPost = Null

\* The place of a repository in GITHUB_REPOS.
RepoIndex(r) == CHOOSE i \in 1..Len(Repos) : Repos[i] = r

\* C25: getRecentCommitsFromRepos(repos, token, count) returns at most count
\* commits; a commit returned before another is of the same day or a later
\* one, and of the same or an earlier repository of the list when of the same
\* day; the commits returned are as many as the per-repository results hold
\* up to count, and none left out is of a later day than one returned.
C25_NewestAcrossRepos ==
  last.op = "fetched" =>
    LET res == last.commits
        avail == Fetched(last.ok, last.count)
    IN /\ Len(res) <= last.count
       /\ Len(res) = Min(last.count, Cardinality(avail))
       /\ \A i \in 1..Len(res), j \in 1..Len(res) :
            i < j =>
              /\ AuthorDate(res[i].sha) >= AuthorDate(res[j].sha)
              /\ AuthorDate(res[i].sha) = AuthorDate(res[j].sha)
                   => RepoIndex(res[i].repo) <= RepoIndex(res[j].repo)
       /\ \A p \in avail :
            (\A i \in 1..Len(res) : res[i].sha # hist[p[1]][p[2]].sha)
            => \A i \in 1..Len(res) : AuthorDate(res[i].sha) >= hist[p[1]][p[2]].date

\* C26: when the posting provider refuses the tweet, postToX fails, with the
\* credits message if the code is 402 or the title CreditsDepleted, else with
\* the permissions message if the code is 403, else with the authentication
\* message if the code is 401, else with a generic error; postToX resolves
\* only when the provider accepted the tweet.
C26_ErrorKindByPriority ==
  /\ pub.cause # NoError =>
       /\ pub.pc = "failed"
       /\ pub.calls = 1
       /\ pub.err =
            (IF pub.cause.code = 402 \/ pub.cause.title = "CreditsDepleted" THEN "credits"
             ELSE IF pub.cause.code = 403 THEN "permissions"
             ELSE IF pub.cause.code = 401 THEN "authentication"
             ELSE pub.err)
       /\ pub.err \in {"credits", "permissions", "authentication", "rethrown",
                        "failed to post"}
       /\ (pub.err \in {"rethrown", "failed to post"})
            => (pub.cause.code \notin {402, 403, 401} /\ pub.cause.title # "CreditsDepleted")
  /\ pub.pc = "done" => (pub.cause = NoError /\ pub.calls = 1)

\* The provider refused with code 403 and title CreditsDepleted: the credits
\* message wins.
C26_Witness ==
  /\ pub.pc = "failed" /\ pub.cause # NoError
  /\ pub.cause.code = 403 /\ pub.cause.title = "CreditsDepleted"
  /\ pub.err = "credits"

\* The handlers other than c.
Others(c) == CmdSlots \ {c}

\* C27: a !post writes nothing to the session map before its success reply
\* was sent; so while a !post awaits postToX or its reply for the text stored
\* under its key, another !post that picks the same key is accepted too and
\* calls postToX with the same text.
C27_DraftPublishedTwice ==
  [][\A c \in CmdSlots :
       /\ (PostStart(c) \/ PostPubOk(c) \/ PostPubFail(c) \/ PostReplyFail(c))
            => userStates' = userStates
       /\ \A d \in Others(c) :
            (/\ PostStart(c)
             /\ cmds[d].pc \in {"postPub", "postReply"}
             /\ PostKey = cmds[d].key
             /\ userStates[PostKey].generatedPost = cmds[d].text)
            => (cmds'[c].pc = "postPub" /\ cmds'[c].key = cmds[d].key
                /\ cmds'[c].text = cmds[d].text)]_vars

\* Two !post handlers have called postToX with the same text of the same
\* session, which is still stored.
C27_Witness ==
  \E c \in CmdSlots, d \in CmdSlots :
    /\ c # d
    /\ cmds[c].pc = "postPub" /\ cmds[d].pc \in {"postPub", "postReply"}
    /\ cmds[c].key = cmds[d].key /\ cmds[c].text = cmds[d].text
    /\ userStates[cmds[c].key].generatedPost = cmds[c].text

\* C28: the delete at the end of a successful !post removes the session
\* stored under its key at that moment, whatever it holds, and no other.
C28_DeletesWhateverIsStored ==
  [][\A c \in CmdSlots :
       PostReplyOk(c) =>
         /\ ~userStates'[cmds[c].key].exists
         /\ \A k \in Keys \ {cmds[c].key} : userStates'[k] = userStates[k]
         /\ last'.deleted = userStates[cmds[c].key]
         /\ last'.text = cmds[c].text]_vars

\* A !post deleted a session stored while it awaited postToX: the session
\* deleted does not hold the text that was published.
C28_Witness ==
  /\ last.op = "posted"
  /\ last.deleted.exists
  /\ last.deleted.generatedPost # last.text
  /\ ~userStates[last.key].exists

\* C29: every auto-draft puts under the key of the channel a session made of
\* the commit drafted, its summary and its post, pending, whatever was stored
\* there; nothing of the session stored before is kept, and the user's
\* session is left alone.
C29_AutoDraftReplaces ==
  [][\A t \in TickSlots, content \in Contents :
       TickCompOk(t, content) =>
         LET commit == ticks[t].cur[1]
         IN /\ userStates'[AutoKey] =
                 [exists |-> TRUE, commits |-> <<commit>>, selectedCommits |-> <<commit>>,
                  generatedSummary |-> ticks[t].summ,
                  generatedPost |-> PostText(ProjectNameOf(commit.repo), content),
                  projectName |-> ProjectNameOf(commit.repo), pendingPost |-> TRUE]
            /\ userStates'[User] = userStates[User]]_vars

\* The draft of a commit replaced the pending draft of another commit.
C29_Witness ==
  /\ last.op = "drafted" /\ last.cmd = "tick"
  /\ last.prior.exists /\ last.prior.pendingPost
  /\ last.prior.commits[1].sha # userStates[AutoKey].commits[1].sha
  /\ last.prior.generatedPost # userStates[AutoKey].generatedPost

\* C30: under any interleaving of the commands and the watcher, every commit
\* in the selectedCommits of a stored session is in the commits of that
\* session.
C30_SelectedAmongCommits ==
  \A k \in Keys :
    userStates[k].exists =>
      \A i \in 1..Len(userStates[k].selectedCommits) :
        \E j \in 1..Len(userStates[k].commits) :
          userStates[k].commits[j] = userStates[k].selectedCommits[i]

\* The user has a selection in a session listed while an earlier !repo was
\* still running, and the channel has a draft.
C30_Witness ==
  /\ userStates[User].exists /\ userStates[User].selectedCommits # <<>>
  /\ userStates[AutoKey].exists
  /\ \E c \in CmdSlots : cmds[c].pc \in {"repoSumm", "repoComp"} /\ ~cmds[c].att

\* C31: when the session a !repo was started on has been deleted (!no, !post)
\* or replaced (!run) while the !repo awaits the summarizer or the composer,
\* no later step of that !repo changes the session map, whether the call
\* returns or throws; when the composer returns, the !repo still replies with
\* the post it generated.
C31_DetachedSelectWritesNothing ==
  [][\A c \in CmdSlots :
       (cmds[c].pc \in {"repoSumm", "repoComp"} /\ ~cmds[c].att) =>
         /\ (RepoSummFail(c) \/ RepoCompFail(c)) => userStates' = userStates
         /\ \A s \in Summaries : RepoSummOk(c, s) => userStates' = userStates
         /\ \A t \in Contents :
              RepoCompOk(c, t) =>
                /\ userStates' = userStates
                /\ last'.op = "drafted" /\ ~last'.att
                /\ last'.post = PostText(cmds[c].pn, t)]_vars

\* A !repo whose session was replaced by a !run while it awaited has replied
\* with its post, and the user's key holds the fresh listing with no draft.
C31_Witness ==
  /\ last.op = "drafted" /\ last.cmd = "repo" /\ ~last.att
  /\ last.post # Null
  /\ userStates[last.key] = ListedState(userStates[last.key].commits)
  /\ userStates[last.key].commits # <<>>

\* C32: no step of the startup seeding or of a timer tick changes what is
\* stored under the key of the user, and no step of a !run or of a !repo
\* changes what is stored under the key of the channel or the watermark of
\* any repository.
C32_ProducersKeepToTheirKeys ==
  [][/\ userStates'[User] = userStates[User] \/ ~WatcherStep
     /\ (userStates'[AutoKey] = userStates[AutoKey]
           /\ lastCheckedCommits' = lastCheckedCommits)
        \/ ~ListOrSelectStep]_vars

\* Both producers have stored a draft, each under its own key, and a
\* watermark is set.
C32_Witness ==
  /\ userStates[User].exists /\ userStates[User].pendingPost
  /\ userStates[AutoKey].exists /\ userStates[AutoKey].pendingPost
  /\ userStates[User].selectedCommits # <<>>
  /\ \E r \in RepoSet : lastCheckedCommits[r] # 0


============================================================================
